---- MODULE Spec2Model ----
(***************************************************************************)
(* A model of the in-memory todo REST API of src/index.ts (the variant     *)
(* with JWT login, lines 1-277): the resource store (two insertion-ordered *)
(* maps and their ID counters), the token registry, the router, the auth   *)
(* gate, the login handler and the eleven resource handlers.               *)
(*                                                                         *)
(* Text is modelled as a sequence of tokens.  A token is a TLA+ string     *)
(* standing for its literal characters: a single character ("a", " ",      *)
(* ":", "1") or one of the words "projects", "todos", "login", "admin",    *)
(* "hunter2", "true", "false", "other".  No input spells a word out of     *)
(* single characters, so two texts are equal iff their token sequences     *)
(* are.                                                                    *)
(***************************************************************************)
EXTENDS Integers, Sequences, FiniteSets, TLC

VARIABLES
    projects,        \* Map<string, Project>, in insertion order
    todos,           \* Map<string, Todo>, in insertion order
    projectCounter,  \* next project ID
    todoCounter,     \* next todo ID
    validJwts,       \* Map<string, number>: token -> expiry in ms
    now,             \* the clock, Date.now(), in ms
    phase,           \* "idle", "pending" (request received), "done" (answered)
    req,             \* the request being handled
    resp,            \* the response to req
    gate,            \* what the auth gate did with req
    ran,             \* the route handler that ran for req
    issued,          \* the IDs the successful creations returned, in call order
    inflight         \* the calls of handler suspended at an await, by slot

vars == <<projects, todos, projectCounter, todoCounter, validJwts, now,
          phase, req, resp, gate, ran, issued, inflight>>

store == <<projects, todos, projectCounter, todoCounter>>

-----------------------------------------------------------------------------
(* Bounds of the exploration *)

\* Successful and attempted creations stop once the two counters have handed
\* out MaxCreates IDs between them.
MaxCreates == 3

\* Calls of handler that can be in flight at once
MaxInFlight == 2

-----------------------------------------------------------------------------
(* JavaScript Map: a sequence of entries [k, v] in insertion order *)

MapEmpty == <<>>

MapKeys(m) == {m[i].k : i \in 1..Len(m)}

MapHas(m, key) == \E i \in 1..Len(m) : m[i].k = key

MapGet(m, key) == m[CHOOSE i \in 1..Len(m) : m[i].k = key].v

MapSet(m, key, val) ==
    IF MapHas(m, key)
    THEN [i \in 1..Len(m) |-> IF m[i].k = key THEN [k |-> key, v |-> val] ELSE m[i]]
    ELSE Append(m, [k |-> key, v |-> val])

MapDelete(m, key) == SelectSeq(m, LAMBDA e : e.k # key)

MapValues(m) == [i \in 1..Len(m) |-> m[i].v]

-----------------------------------------------------------------------------
(* JSON values of a request body.  v is the text String(x) gives. *)

Undefined == [t |-> "undefined", v |-> <<"undefined">>]
Null == [t |-> "null", v |-> <<"null">>]
Str(s) == [t |-> "string", v |-> s]
Bool(b) == [t |-> "boolean", v |-> IF b THEN <<"true">> ELSE <<"false">>]
Num(digits) == [t |-> "number", v |-> digits]

\* x ?? d
Coalesce(x, d) == IF x.t \in {"undefined", "null"} THEN d ELSE x

\* String(x)
String(x) == x.v

\* Boolean(x)
Boolean(x) ==
    CASE x.t = "boolean" -> x.v = <<"true">>
      [] x.t = "string" -> x.v # <<>>
      [] x.t = "number" -> x.v # <<"0">>
      [] OTHER -> FALSE

\* s.trim()
RECURSIVE TrimStart(_)
TrimStart(s) == IF s # <<>> /\ Head(s) = " " THEN TrimStart(Tail(s)) ELSE s

RECURSIVE TrimEnd(_)
TrimEnd(s) ==
    IF s # <<>> /\ s[Len(s)] = " " THEN TrimEnd(SubSeq(s, 1, Len(s) - 1)) ELSE s

Trim(s) == TrimEnd(TrimStart(s))

\* String(n) for a counter value
Digit(d) ==
    CASE d = 0 -> "0" [] d = 1 -> "1" [] d = 2 -> "2" [] d = 3 -> "3" [] d = 4 -> "4"
      [] d = 5 -> "5" [] d = 6 -> "6" [] d = 7 -> "7" [] d = 8 -> "8" [] d = 9 -> "9"

RECURSIVE NumberToString(_)
NumberToString(n) ==
    IF n < 10 THEN <<Digit(n)>> ELSE Append(NumberToString(n \div 10), Digit(n % 10))

\* body?.f: an unparseable, absent or non-object body has no fields
NoBody == [kind |-> "null"]

Field(body, f) ==
    IF body.kind = "object" /\ f \in DOMAIN body.fields THEN body.fields[f] ELSE Undefined

-----------------------------------------------------------------------------
(* Responses *)

NoResp == [status |-> 0, kind |-> "none", body |-> <<>>]

\* json(res, status)
json(res, status) == [status |-> status, kind |-> "json", body |-> res]

\* new Response(text, { status })
text(msg, status) == [status |-> status, kind |-> "text", body |-> msg]

\* notFound()
notFound == text("Not Found", 404)

\* new Response(null, { status: 204 })
noContent == [status |-> 204, kind |-> "empty", body |-> <<>>]

\* the response Bun.serve gives when the fetch handler throws
serverError == [status |-> 500, kind |-> "error", body |-> <<>>]

\* { error: msg }
ErrorBody(msg) == [error |-> msg]

-----------------------------------------------------------------------------
(* Router *)

Capture == <<"([^/]+)">>

\* A pathname is the sequence of its segments after the leading "/":
\* "/" is << <<>> >>, "/projects/1" is << <<"projects">>, <<"1">> >>, and a
\* pathname that ends in "/" has the empty text as its last segment.
Exact(segs) == [anchored |-> TRUE, segs |-> segs]

\* /\/$/ : any pathname whose last character is "/"
EndsWithSlash == [anchored |-> FALSE, segs |-> <<>>]

routes == <<
    [method |-> "GET",    path |-> EndsWithSlash,                                     handler |-> "root",          name |-> "undefined"],
    [method |-> "GET",    path |-> Exact(<< <<"projects">> >>),                       handler |-> "listProjects",  name |-> "undefined"],
    [method |-> "POST",   path |-> Exact(<< <<"projects">> >>),                       handler |-> "createProject", name |-> "undefined"],
    [method |-> "GET",    path |-> Exact(<< <<"projects">>, Capture >>),              handler |-> "getProject",    name |-> "undefined"],
    [method |-> "PUT",    path |-> Exact(<< <<"projects">>, Capture >>),              handler |-> "updateProject", name |-> "undefined"],
    [method |-> "DELETE", path |-> Exact(<< <<"projects">>, Capture >>),              handler |-> "deleteProject", name |-> "undefined"],
    [method |-> "GET",    path |-> Exact(<< <<"projects">>, Capture, <<"todos">> >>), handler |-> "listTodos",     name |-> "undefined"],
    [method |-> "POST",   path |-> Exact(<< <<"projects">>, Capture, <<"todos">> >>), handler |-> "createTodo",    name |-> "undefined"],
    [method |-> "GET",    path |-> Exact(<< <<"todos">> >>),                          handler |-> "listAllTodos",  name |-> "undefined"],
    [method |-> "GET",    path |-> Exact(<< <<"todos">>, Capture >>),                 handler |-> "getTodo",       name |-> "undefined"],
    [method |-> "PUT",    path |-> Exact(<< <<"todos">>, Capture >>),                 handler |-> "updateTodo",    name |-> "undefined"],
    [method |-> "DELETE", path |-> Exact(<< <<"todos">>, Capture >>),                 handler |-> "deleteTodo",    name |-> "undefined"],
    [method |-> "POST",   path |-> Exact(<< <<"login">> >>),                          handler |-> "login",         name |-> "login"] >>

\* path.match(route.path)
PathMatches(pat, path) ==
    IF pat.anchored
    THEN /\ Len(path) = Len(pat.segs)
         /\ \A i \in 1..Len(path) :
                IF pat.segs[i] = Capture THEN path[i] # <<>> ELSE path[i] = pat.segs[i]
    ELSE path[Len(path)] = <<>>

\* match.slice(1): the captured segments, in order
Captures(pat, path) ==
    IF pat.anchored
    THEN LET idx == SelectSeq([i \in 1..Len(path) |-> i], LAMBDA i : pat.segs[i] = Capture)
         IN  [j \in 1..Len(idx) |-> path[idx[j]]]
    ELSE <<>>

NoMatch == [handler |-> "none", name |-> "undefined", params |-> <<>>]

matchRoute(path, method) ==
    LET hits == {i \in 1..Len(routes) :
                    PathMatches(routes[i].path, path) /\ method = routes[i].method}
    IN  IF hits = {} THEN NoMatch
        ELSE LET i == CHOOSE h \in hits : \A g \in hits : h <= g
             IN  [handler |-> routes[i].handler, name |-> routes[i].name,
                  params |-> Captures(routes[i].path, path)]

-----------------------------------------------------------------------------
(* Auth gate *)

\* An Authorization header is absent, or a scheme prefix followed by the rest
\* of the text: the prefix is compared as startsWith does, case and blank
\* included.
NoHeader == [scheme |-> "none"]

StartsWith(header, prefix) == header.scheme # "none" /\ header.scheme = prefix

\* !expMs || expMs < now
TokenRejected(jwts, token, t) ==
    \/ ~MapHas(jwts, token)
    \/ MapGet(jwts, token) = 0
    \/ MapGet(jwts, token) < t

authHandler(header, jwts, t) ==
    IF ~StartsWith(header, "Bearer ")
    THEN json(ErrorBody("Missing Authorization header"), 401)
    ELSE IF TokenRejected(jwts, header.rest, t)
         THEN json(ErrorBody("Invalid token"), 401)
         ELSE json([message |-> "Token is valid"], 200)

-----------------------------------------------------------------------------
(* Handlers.  Each takes the module-level state st (a record of the two    *)
(* maps, the two counters and the token registry) and returns the state    *)
(* it leaves and its response.                                             *)

Result(st, response) == [st |-> st, resp |-> response]

\* new Date().toISOString()
ISOString(ms) == [iso |-> ms]

root(st) == Result(st, json([empty |-> TRUE], 200))

listProjects(st) == Result(st, json(MapValues(st.projects), 200))

\* (a slip: the counter advances before the name is validated)
createProject_CountsAttempts(st, body, t) ==
    LET name == Trim(String(Coalesce(Field(body, "name"), Str(<<>>))))
        id == NumberToString(st.projectCounter)
        project == [id |-> id, name |-> name, createdAt |-> ISOString(t)]
    IN  IF name = <<>>
        THEN Result([st EXCEPT !.projectCounter = @ + 1], text("Missing project name", 400))
        ELSE Result([st EXCEPT !.projectCounter = @ + 1,
                               !.projects = MapSet(@, id, project)],
                    json(project, 201))

createProject(st, body, t) ==
    LET name == Trim(String(Coalesce(Field(body, "name"), Str(<<>>))))
        id == NumberToString(st.projectCounter)
        project == [id |-> id, name |-> name, createdAt |-> ISOString(t)]
    IN  IF name = <<>> THEN Result(st, text("Missing project name", 400))
        ELSE Result([st EXCEPT !.projectCounter = @ + 1,
                               !.projects = MapSet(@, id, project)],
                    json(project, 201))

getProject(st, params) ==
    LET projectId == params[1]
    IN  IF MapHas(st.projects, projectId)
        THEN Result(st, json(MapGet(st.projects, projectId), 200))
        ELSE Result(st, notFound)

updateProject(st, params, body) ==
    LET projectId == params[1]
        name == Trim(String(Coalesce(Field(body, "name"), Str(<<>>))))
    IN  IF ~MapHas(st.projects, projectId) THEN Result(st, notFound)
        ELSE IF name = <<>> THEN Result(st, text("Missing project name", 400))
        ELSE LET updated == [MapGet(st.projects, projectId) EXCEPT !.name = name]
             IN  Result([st EXCEPT !.projects = MapSet(@, projectId, updated)],
                        json(updated, 200))

\* (a slip: the delete also removes the project's todos)
deleteProject_Cascade(st, params) ==
    LET projectId == params[1]
    IN  IF ~MapHas(st.projects, projectId) THEN Result(st, notFound)
        ELSE Result([st EXCEPT !.projects = MapDelete(@, projectId),
                               !.todos = SelectSeq(@, LAMBDA e : e.v.projectId # projectId)],
                    noContent)

deleteProject(st, params) ==
    LET projectId == params[1]
    IN  IF ~MapHas(st.projects, projectId) THEN Result(st, notFound)
        ELSE Result([st EXCEPT !.projects = MapDelete(@, projectId)], noContent)

listTodos(st, params) ==
    LET projectId == params[1]
    IN  IF ~MapHas(st.projects, projectId) THEN Result(st, notFound)
        ELSE Result(st, json(SelectSeq(MapValues(st.todos),
                                       LAMBDA todo : todo.projectId = projectId), 200))

listAllTodos(st) == Result(st, json(MapValues(st.todos), 200))

\* (a slip: the ID is taken from the size of the map)
createTodo_IdFromSize(st, params, body, t) ==
    LET projectId == params[1]
        title == Trim(String(Coalesce(Field(body, "title"), Str(<<>>))))
        id == NumberToString(Len(st.todos) + 1)
        due == Field(body, "dueDate")
        todo == [id |-> id,
                 projectId |-> projectId,
                 title |-> title,
                 completed |-> Boolean(Coalesce(Field(body, "completed"), Bool(FALSE))),
                 dueDate |-> IF due.t = "string" THEN due ELSE Null,
                 createdAt |-> ISOString(t)]
    IN  IF ~MapHas(st.projects, projectId) THEN Result(st, notFound)
        ELSE IF title = <<>> THEN Result(st, text("Missing todo title", 400))
        ELSE Result([st EXCEPT !.todoCounter = @ + 1,
                               !.todos = MapSet(@, id, todo)],
                    json(todo, 201))

\* (a slip: the title is validated before the parent project is looked up)
createTodo_TitleFirst(st, params, body, t) ==
    LET projectId == params[1]
        title == Trim(String(Coalesce(Field(body, "title"), Str(<<>>))))
        id == NumberToString(st.todoCounter)
        due == Field(body, "dueDate")
        todo == [id |-> id,
                 projectId |-> projectId,
                 title |-> title,
                 completed |-> Boolean(Coalesce(Field(body, "completed"), Bool(FALSE))),
                 dueDate |-> IF due.t = "string" THEN due ELSE Null,
                 createdAt |-> ISOString(t)]
    IN  IF title = <<>> THEN Result(st, text("Missing todo title", 400))
        ELSE IF ~MapHas(st.projects, projectId) THEN Result(st, notFound)
        ELSE Result([st EXCEPT !.todoCounter = @ + 1,
                               !.todos = MapSet(@, id, todo)],
                    json(todo, 201))

createTodo(st, params, body, t) ==
    LET projectId == params[1]
        title == Trim(String(Coalesce(Field(body, "title"), Str(<<>>))))
        id == NumberToString(st.todoCounter)
        due == Field(body, "dueDate")
        todo == [id |-> id,
                 projectId |-> projectId,
                 title |-> title,
                 completed |-> Boolean(Coalesce(Field(body, "completed"), Bool(FALSE))),
                 dueDate |-> IF due.t = "string" THEN due ELSE Null,
                 createdAt |-> ISOString(t)]
    IN  IF ~MapHas(st.projects, projectId) THEN Result(st, notFound)
        ELSE IF title = <<>> THEN Result(st, text("Missing todo title", 400))
        ELSE Result([st EXCEPT !.todoCounter = @ + 1,
                               !.todos = MapSet(@, id, todo)],
                    json(todo, 201))

getTodo(st, params) ==
    LET todoId == params[1]
    IN  IF MapHas(st.todos, todoId)
        THEN Result(st, json(MapGet(st.todos, todoId), 200))
        ELSE Result(st, notFound)

\* (a slip: the whole body is spread over the todo)
UpdatedTodo_SpreadBody(todo, body) ==
    LET title == Field(body, "title")
        completed == Field(body, "completed")
        due == Field(body, "dueDate")
        project == Field(body, "projectId")
    IN  [todo EXCEPT
            !.title = IF title.t = "string" THEN title.v ELSE @,
            !.completed = IF completed.t = "boolean" THEN Boolean(completed) ELSE @,
            !.dueDate = IF due.t = "string" THEN due ELSE @,
            !.projectId = IF project.t = "string" THEN project.v ELSE @]

\* (a slip: completed is coerced instead of type-checked)
UpdatedTodo_Coerced(todo, body) ==
    LET title == Field(body, "title")
        completed == Field(body, "completed")
        due == Field(body, "dueDate")
    IN  [todo EXCEPT
            !.title = IF title.t = "string" THEN title.v ELSE @,
            !.completed = IF completed.t # "undefined" THEN Boolean(completed) ELSE @,
            !.dueDate = IF due.t = "string" THEN due ELSE @]

\* { ...todo, title: ..., completed: ..., dueDate: ... }
UpdatedTodo(todo, body) ==
    LET title == Field(body, "title")
        completed == Field(body, "completed")
        due == Field(body, "dueDate")
    IN  [todo EXCEPT
            !.title = IF title.t = "string" THEN title.v ELSE @,
            !.completed = IF completed.t = "boolean" THEN Boolean(completed) ELSE @,
            !.dueDate = IF due.t = "string" THEN due ELSE @]

updateTodo(st, params, body) ==
    LET todoId == params[1]
    IN  IF ~MapHas(st.todos, todoId) THEN Result(st, notFound)
        ELSE LET updated == UpdatedTodo(MapGet(st.todos, todoId), body)
             IN  Result([st EXCEPT !.todos = MapSet(@, todoId, updated)],
                        json(updated, 200))

deleteTodo(st, params) ==
    LET todoId == params[1]
    IN  IF ~MapHas(st.todos, todoId) THEN Result(st, notFound)
        ELSE Result([st EXCEPT !.todos = MapDelete(@, todoId)], noContent)

-----------------------------------------------------------------------------
(* Login *)

USERNAME == <<"admin">>
PASSWORD == <<"hunter2">>

MsPerSecond == 1000
HourSeconds == 60 * 60

\* decoded.split(":")
RECURSIVE Split(_)
Split(s) ==
    IF \A i \in 1..Len(s) : s[i] # ":"
    THEN <<s>>
    ELSE LET i == CHOOSE j \in 1..Len(s) : s[j] = ":" /\ \A h \in 1..(j - 1) : s[h] # ":"
         IN  <<SubSeq(s, 1, i - 1)>> \o Split(SubSeq(s, i + 1, Len(s)))

\* const [username, password] = parts; username !== USERNAME || password !== PASSWORD
CredentialsRejected(parts) ==
    \/ parts[1] # USERNAME
    \/ Len(parts) < 2
    \/ parts[2] # PASSWORD

\* new SignJWT({ sub, role: "user" }).setIssuedAt(iat).setExpirationTime(exp)
\* .sign(JWT_SECRET): HS256 over the header and payload is a function of them,
\* one token text per payload.
SignJWT(sub, iat, exp) == [sub |-> sub, role |-> "user", iat |-> iat, exp |-> exp]

\* The text after "Basic " is base64: atob gives the text it encodes, or
\* throws when it is not base64.
InvalidBase64 == [valid |-> FALSE, decoded |-> <<>>]
Base64(s) == [valid |-> TRUE, decoded |-> s]

\* const now = Math.floor(Date.now() / 1000)
IssuedAt(t) == t \div MsPerSecond

\* const exp = now + 60 * 60
Expiration(nowSec) == nowSec + HourSeconds

\* (a slip: the expiry is kept in seconds)
ExpMs_InSeconds(exp) == exp

\* const expMs = exp * 1000
ExpMs(exp) == exp * MsPerSecond

\* (a slip: a login ends the sessions opened before it)
login_SingleSession(st, header, t) ==
    IF ~StartsWith(header, "Basic ")
    THEN Result(st, json(ErrorBody("Missing Authorization header"), 401))
    ELSE IF ~header.rest.valid THEN Result(st, serverError)
    ELSE LET parts == Split(header.rest.decoded)
             nowSec == IssuedAt(t)
             exp == Expiration(nowSec)
             jwt == SignJWT(parts[1], nowSec, exp)
             expMs == ExpMs(exp)
         IN  IF CredentialsRejected(parts)
             THEN Result(st, json(ErrorBody("Invalid credentials"), 401))
             ELSE Result([st EXCEPT !.validJwts = MapSet(MapEmpty, jwt, expMs)],
                         json([token |-> jwt, expMs |-> expMs], 200))

login(st, header, t) ==
    IF ~StartsWith(header, "Basic ")
    THEN Result(st, json(ErrorBody("Missing Authorization header"), 401))
    ELSE IF ~header.rest.valid THEN Result(st, serverError)
    ELSE LET parts == Split(header.rest.decoded)
             nowSec == IssuedAt(t)
             exp == Expiration(nowSec)
             jwt == SignJWT(parts[1], nowSec, exp)
             expMs == ExpMs(exp)
         IN  IF CredentialsRejected(parts)
             THEN Result(st, json(ErrorBody("Invalid credentials"), 401))
             ELSE Result([st EXCEPT !.validJwts = MapSet(@, jwt, expMs)],
                         json([token |-> jwt, expMs |-> expMs], 200))

-----------------------------------------------------------------------------
(* The request pipeline *)

\* match.handler({ req, body, params })
Dispatch(h, st, r, body, params, t) ==
    CASE h = "root" -> root(st)
      [] h = "listProjects" -> listProjects(st)
      [] h = "createProject" -> createProject(st, body, t)
      [] h = "getProject" -> getProject(st, params)
      [] h = "updateProject" -> updateProject(st, params, body)
      [] h = "deleteProject" -> deleteProject(st, params)
      [] h = "listTodos" -> listTodos(st, params)
      [] h = "createTodo" -> createTodo(st, params, body, t)
      [] h = "listAllTodos" -> listAllTodos(st)
      [] h = "getTodo" -> getTodo(st, params)
      [] h = "updateTodo" -> updateTodo(st, params, body)
      [] h = "deleteTodo" -> deleteTodo(st, params)
      [] h = "login" -> login(st, r.header, t)

\* parseBody(req): the parsed JSON, or null when the text does not parse
parseBody(r) == IF r.body.kind = "unparseable" THEN NoBody ELSE r.body

\* The route name the gate compares with 'login'
GateApplies(match) == match.name # "login"

\* (a slip: a body that is not JSON is turned away with 400)
handler_RejectsMalformed(st, r, t) ==
    LET match == matchRoute(r.path, r.method)
        auth == authHandler(r.header, st.validJwts, t)
        body == IF r.method \in {"POST", "PUT"} THEN parseBody(r) ELSE NoBody
        out == Dispatch(match.handler, st, r, body, match.params, t)
    IN  IF match.handler = "none"
        THEN [st |-> st, resp |-> notFound, gate |-> "none", ran |-> "none"]
        ELSE IF GateApplies(match) /\ auth.status # 200
        THEN [st |-> st, resp |-> auth, gate |-> "rejected", ran |-> "none"]
        ELSE IF r.method \in {"POST", "PUT"} /\ r.body.kind = "unparseable"
        THEN [st |-> st, resp |-> text("Invalid JSON", 400),
              gate |-> IF GateApplies(match) THEN "accepted" ELSE "skipped",
              ran |-> "none"]
        ELSE [st |-> out.st, resp |-> out.resp,
              gate |-> IF GateApplies(match) THEN "accepted" ELSE "skipped",
              ran |-> match.handler]

\* handler(req): [st, resp, gate, ran]
handler(st, r, t) ==
    LET match == matchRoute(r.path, r.method)
        auth == authHandler(r.header, st.validJwts, t)
        body == IF r.method \in {"POST", "PUT"} THEN parseBody(r) ELSE NoBody
        out == Dispatch(match.handler, st, r, body, match.params, t)
    IN  IF match.handler = "none"
        THEN [st |-> st, resp |-> notFound, gate |-> "none", ran |-> "none"]
        ELSE IF GateApplies(match) /\ auth.status # 200
        THEN [st |-> st, resp |-> auth, gate |-> "rejected", ran |-> "none"]
        ELSE [st |-> out.st, resp |-> out.resp,
              gate |-> IF GateApplies(match) THEN "accepted" ELSE "skipped",
              ran |-> match.handler]

-----------------------------------------------------------------------------
(* Inputs explored *)

\* Clock readings: a login instant inside a second, the expiry of its token
\* and the instant after it
FirstInstant == 1 * MsPerSecond + 500
ExpiryOf(t) == ((t \div MsPerSecond) + HourSeconds) * MsPerSecond
Instants == {FirstInstant, ExpiryOf(FirstInstant), ExpiryOf(FirstInstant) + 1}

\* The token a login at instant t returns
TokenAt(t) == SignJWT(USERNAME, t \div MsPerSecond, (t \div MsPerSecond) + HourSeconds)

\* A well-formed token the server never signed
ForgedToken == SignJWT(USERNAME, 0, 0)

Bearer(token) == [scheme |-> "Bearer ", rest |-> token]
Basic(b64) == [scheme |-> "Basic ", rest |-> b64]

GoodCredentials == USERNAME \o <<":">> \o PASSWORD

Credentials ==
    { GoodCredentials,
      GoodCredentials \o <<":", "x">>,
      GoodCredentials \o <<":">>,
      GoodCredentials \o <<"x">>,
      USERNAME \o <<":", "x">>,
      <<"x", ":">> \o PASSWORD,
      USERNAME,
      <<":">> \o PASSWORD,
      <<>> }

Object(fields) == [kind |-> "object", fields |-> fields]
Unparseable == [kind |-> "unparseable"]
Absent == [kind |-> "absent"]

ProjectBodies ==
    { Unparseable,
      Object(<<>>),
      Object([name |-> Str(<<" ">>)]),
      Object([name |-> Str(<<"a">>)]),
      Object([name |-> Str(<<" ", "b">>)]) }

TodoBodies ==
    { Unparseable,
      Object(<<>>),
      Object([title |-> Str(<<"a">>)]),
      Object([title |-> Str(<<>>), completed |-> Bool(TRUE),
              dueDate |-> Str(<<"d">>), projectId |-> Str(<<"9">>)]),
      Object([completed |-> Str(<<"true">>), dueDate |-> Num(<<"5">>)]) }

ProjectIds == {NumberToString(n) : n \in 1..MaxCreates} \cup {<<"x">>}
TodoIds == {NumberToString(n) : n \in 1..(MaxCreates - 1)} \cup {<<"x">>}

Request(method, path, header, body) ==
    [method |-> method, path |-> path, header |-> header, body |-> body]

\* The requests of the resource routes: headers hs, project bodies pb, todo
\* bodies tb, project IDs pids and todo IDs tids
ResourceRequests(hs, pb, tb, pids, tids) ==
    LET P == <<"projects">>
        T == <<"todos">>
    IN  UNION {
          {Request("GET", <<P>>, h, Absent), Request("GET", <<T>>, h, Absent),
           Request("GET", << <<>> >>, h, Absent)}
          \cup {Request("POST", <<P>>, h, b) : b \in pb}
          \cup {Request(m, <<P, id>>, h, Absent) : m \in {"GET", "DELETE"}, id \in pids}
          \cup {Request("PUT", <<P, id>>, h, b) : id \in pids, b \in pb}
          \cup {Request("GET", <<P, id, T>>, h, Absent) : id \in pids}
          \cup {Request("POST", <<P, id, T>>, h, b) : id \in pids, b \in tb}
          \cup {Request(m, <<T, id>>, h, Absent) : m \in {"GET", "DELETE"}, id \in tids}
          \cup {Request("PUT", <<T, id>>, h, b) : id \in tids, b \in tb}
          : h \in hs }

LoginRequests(hs) == {Request("POST", << <<"login">> >>, h, Absent) : h \in hs}

\* Requests no route serves
UnroutedRequests ==
    { Request("PATCH", << <<"projects">> >>, NoHeader, Absent),
      Request("GET", << <<"login">> >>, NoHeader, Absent),
      Request("GET", << <<"other">> >>, Bearer(ForgedToken), Absent) }

\* Requests for a declared path followed by "/"
TrailingSlashRequests(hs) ==
    LET P == <<"projects">>
        T == <<"todos">>
    IN  UNION {
          {Request("GET", <<P, <<>> >>, h, Absent),
           Request("GET", <<T, <<"1">>, <<>> >>, h, Absent),
           Request("DELETE", <<P, <<"1">>, <<>> >>, h, Absent),
           Request("POST", <<P, <<>> >>, h, Object([name |-> Str(<<"a">>)]))}
          : h \in hs }

-----------------------------------------------------------------------------
(* The state machine *)

State == [projects |-> projects, todos |-> todos, projectCounter |-> projectCounter,
          todoCounter |-> todoCounter, validJwts |-> validJwts]

NoRequest == Request("none", <<>>, NoHeader, Absent)

\* A call of handler: where it is suspended (pc), its request, the route
\* matchRoute returned, the instant login read, the response once it has
\* returned and the handler that ran; seen tells whether the project or
\* todo the request names was stored when the request arrived.
Slots == 1..MaxInFlight

Free == [pc |-> "free"]

Init ==
    /\ projects = MapEmpty
    /\ todos = MapEmpty
    /\ projectCounter = 1
    /\ todoCounter = 1
    /\ validJwts = MapEmpty
    /\ now = FirstInstant
    /\ phase = "idle"
    /\ req = NoRequest
    /\ resp = NoResp
    /\ gate = "none"
    /\ ran = "none"
    /\ issued = [projects |-> <<>>, todos |-> <<>>]
    /\ inflight = [s \in Slots |-> Free]

\* The counters are capped: no create request arrives once the cap is reached
WithinBounds(r) ==
    LET h == matchRoute(r.path, r.method).handler
    IN  h \in {"createProject", "createTodo"} =>
            (projectCounter - 1) + (todoCounter - 1) < MaxCreates

\* Bun.serve's fetch: request r arrives and handler(r) answers it
Serve(r) ==
    /\ phase = "idle"
    /\ WithinBounds(r)
    /\ LET out == handler(State, r, now)
       IN  /\ projects' = out.st.projects
           /\ todos' = out.st.todos
           /\ projectCounter' = out.st.projectCounter
           /\ todoCounter' = out.st.todoCounter
           /\ validJwts' = out.st.validJwts
           /\ resp' = out.resp
           /\ gate' = out.gate
           /\ ran' = out.ran
           /\ issued' =
                IF out.resp.status = 201 /\ out.ran = "createProject"
                THEN [issued EXCEPT !.projects = Append(@, out.resp.body.id)]
                ELSE IF out.resp.status = 201 /\ out.ran = "createTodo"
                THEN [issued EXCEPT !.todos = Append(@, out.resp.body.id)]
                ELSE issued
    /\ req' = r
    /\ phase' = "done"
    /\ UNCHANGED <<now, inflight>>

\* The response has been sent
Reply ==
    /\ phase = "done"
    /\ phase' = "idle"
    /\ req' = NoRequest
    /\ resp' = NoResp
    /\ gate' = "none"
    /\ ran' = "none"
    /\ UNCHANGED <<store, validJwts, now, issued, inflight>>

\* Time passes between requests
Tick(instants) ==
    /\ phase = "idle"
    /\ \E t \in instants : t > now /\ now' = t
    /\ UNCHANGED <<store, validJwts, phase, req, resp, gate, ran, issued, inflight>>

\* Spec explores the store: every body, one token, two clock readings.
StoreHeaders == {Bearer(TokenAt(FirstInstant))}
StoreInstants == {FirstInstant, FirstInstant + 1}

ServeLogin == \E r \in LoginRequests({Basic(Base64(GoodCredentials))}) : Serve(r)
ServeResource == \E r \in ResourceRequests(StoreHeaders, ProjectBodies, TodoBodies, ProjectIds, TodoIds) : Serve(r)
ServeUnrouted == \E r \in UnroutedRequests : Serve(r)

Next ==
    \/ ServeLogin
    \/ ServeResource
    \/ ServeUnrouted
    \/ Reply
    \/ Tick(StoreInstants)

Spec == Init /\ [][Next]_vars

\* SpecAuth explores login and the gate: every header and credential text,
\* the clock around a token's expiry, one valid body per create and update.
AuthHeaders ==
    {NoHeader, Basic(Base64(GoodCredentials))}
    \cup {Bearer(tk) : tk \in {TokenAt(t) : t \in Instants} \cup {ForgedToken}}

LoginHeaders ==
    {NoHeader, Bearer(TokenAt(FirstInstant)), Basic(InvalidBase64)}
    \cup {Basic(Base64(c)) : c \in Credentials}

\* The clock also reads the second after the first login's
AuthInstants == Instants \cup {FirstInstant + MsPerSecond}

AuthLogin == \E r \in LoginRequests(LoginHeaders) : Serve(r)
AuthResource ==
    \E r \in ResourceRequests(AuthHeaders, {Object([name |-> Str(<<"a">>)])},
                               {Object([title |-> Str(<<"a">>)])},
                               {<<"1">>, <<"x">>}, {<<"1">>, <<"x">>}) : Serve(r)

AuthTrailingSlash ==
    \E r \in TrailingSlashRequests({NoHeader, Bearer(TokenAt(FirstInstant))}) : Serve(r)

NextAuth ==
    \/ AuthLogin
    \/ AuthResource
    \/ AuthTrailingSlash
    \/ ServeUnrouted
    \/ Reply
    \/ Tick(AuthInstants)

SpecAuth == Init /\ [][NextAuth]_vars

-----------------------------------------------------------------------------
(* Several requests in flight: handler is an async function, and a call of
   it runs until it returns or reaches an await, where the other calls take
   their turns.  Its awaits are those of authHandler's result (line 126), of
   parseBody's req.json() (lines 53, 130) and of login's sign() (line 262). *)

Call(pc, r, match, resp0, ran0, t, seen) ==
    [pc |-> pc, req |-> r, match |-> match, resp |-> resp0, ran |-> ran0,
     iat |-> t, seen |-> seen]

Returned(f, response, ran0) == [f EXCEPT !.pc = "done", !.resp = response, !.ran = ran0]

NeedsBody(r) == r.method \in {"POST", "PUT"}

\* (a slip: updateProject's existence check is made when the request
\* arrives, and the write after the awaits)
RunHandler_CheckedOnArrival(st, f, body, t) ==
    LET id == f.match.params[1]
        written == [id |-> id, name |-> Trim(String(Coalesce(Field(body, "name"), Str(<<>>)))),
                    createdAt |-> ISOString(t)]
    IN  IF f.match.handler = "updateProject" /\ f.seen /\ ~MapHas(st.projects, id)
        THEN Result([st EXCEPT !.projects = MapSet(@, id, written)], json(written, 200))
        ELSE Dispatch(f.match.handler, st, f.req, body, f.match.params, t)

\* match.handler({ req, body, params }) of a resource route
RunHandler(st, f, body, t) ==
    Dispatch(f.match.handler, st, f.req, body, f.match.params, t)

\* The synchronous run of a handler: the store and the registry become
\* out.st, and a 201 adds the returned ID to the history
Commit(s, f, out) ==
    /\ projects' = out.st.projects
    /\ todos' = out.st.todos
    /\ projectCounter' = out.st.projectCounter
    /\ todoCounter' = out.st.todoCounter
    /\ validJwts' = out.st.validJwts
    /\ inflight' = [inflight EXCEPT ![s] = Returned(f, out.resp, f.match.handler)]
    /\ issued' =
         IF out.resp.status = 201 /\ f.match.handler = "createProject"
         THEN [issued EXCEPT !.projects = Append(@, out.resp.body.id)]
         ELSE IF out.resp.status = 201 /\ f.match.handler = "createTodo"
         THEN [issued EXCEPT !.todos = Append(@, out.resp.body.id)]
         ELSE issued

\* The project or todo the matched route names is stored
Found(match) ==
    CASE match.handler \in {"getProject", "updateProject", "deleteProject",
                            "listTodos", "createTodo"} ->
             MapHas(projects, match.params[1])
      [] match.handler \in {"getTodo", "updateTodo", "deleteTodo"} ->
             MapHas(todos, match.params[1])
      [] OTHER -> FALSE

\* The creations in flight count towards the cap on the counters
CreatesInFlight ==
    Cardinality({s \in Slots : /\ inflight[s].pc \in {"auth", "body"}
                               /\ inflight[s].match.handler \in {"createProject", "createTodo"}})

\* handler(req) up to its first await: no route, or authHandler has run and
\* its result is awaited, or (login) req.json() is awaited
Arrive(s, r) ==
    /\ inflight[s].pc = "free"
    /\ LET match == matchRoute(r.path, r.method)
           seen == Found(match)
           auth == authHandler(r.header, validJwts, now)
       IN  /\ match.handler \in {"createProject", "createTodo"} =>
                (projectCounter - 1) + (todoCounter - 1) + CreatesInFlight < MaxCreates
           /\ inflight' = [inflight EXCEPT ![s] =
                 IF match.handler = "none"
                 THEN Call("done", r, match, notFound, "none", 0, seen)
                 ELSE IF GateApplies(match)
                 THEN Call("auth", r, match, auth, "none", 0, seen)
                 ELSE Call("body", r, match, NoResp, "none", 0, seen)]
    /\ UNCHANGED <<store, validJwts, now, phase, req, resp, gate, ran, issued>>

\* After await authHandler(req): a 401 is returned; a POST or PUT goes on to
\* await req.json(); any other method runs its handler
AfterAuth(s) ==
    LET f == inflight[s]
    IN  /\ f.pc = "auth"
        /\ IF f.resp.status # 200
           THEN /\ inflight' = [inflight EXCEPT ![s] = Returned(f, f.resp, "none")]
                /\ UNCHANGED <<store, validJwts, issued>>
           ELSE IF NeedsBody(f.req)
           THEN /\ inflight' = [inflight EXCEPT ![s].pc = "body", ![s].resp = NoResp]
                /\ UNCHANGED <<store, validJwts, issued>>
           ELSE Commit(s, f, RunHandler(State, f, NoBody, now))
        /\ UNCHANGED <<now, phase, req, resp, gate, ran>>

\* After await parseBody(req): a resource handler runs to its return; login
\* runs to its return or to await sign(), having read the clock
AfterBody(s) ==
    LET f == inflight[s]
        body == parseBody(f.req)
        early == login(State, f.req.header, now)
    IN  /\ f.pc = "body"
        /\ IF f.match.handler # "login"
           THEN Commit(s, f, RunHandler(State, f, body, now))
           ELSE /\ inflight' = [inflight EXCEPT ![s] =
                      IF early.resp.status # 200
                      THEN Returned(f, early.resp, "login")
                      ELSE [f EXCEPT !.pc = "sign", !.iat = now]]
                /\ UNCHANGED <<store, validJwts, issued>>
        /\ UNCHANGED <<now, phase, req, resp, gate, ran>>

\* After await sign(): validJwts.set(jwt, expMs) and the 200
AfterSign(s) ==
    LET f == inflight[s]
    IN  /\ f.pc = "sign"
        /\ Commit(s, f, login(State, f.req.header, f.iat))
        /\ UNCHANGED <<now, phase, req, resp, gate, ran>>

\* The response of a returned call has been sent
Respond(s) ==
    /\ inflight[s].pc = "done"
    /\ inflight' = [inflight EXCEPT ![s] = Free]
    /\ UNCHANGED <<store, validJwts, now, phase, req, resp, gate, ran, issued>>

\* SpecAsync explores the interleavings: one token, one body per create
\* and update, the first IDs.
AsyncRequests ==
    LET P == <<"projects">>
        T == <<"todos">>
        h == Bearer(TokenAt(FirstInstant))
    IN  LoginRequests({Basic(Base64(GoodCredentials))})
        \cup { Request("POST", <<P>>, h, Object([name |-> Str(<<"a">>)])),
               Request("PUT", <<P, <<"1">> >>, h, Object([name |-> Str(<<"b">>)])),
               Request("DELETE", <<P, <<"1">> >>, h, Absent),
               Request("POST", <<P, <<"1">>, T>>, h, Object([title |-> Str(<<"a">>)])) }

AsyncArrive == \E s \in Slots, r \in AsyncRequests : Arrive(s, r)
AsyncAfterAuth == \E s \in Slots : AfterAuth(s)
AsyncAfterBody == \E s \in Slots : AfterBody(s)
AsyncAfterSign == \E s \in Slots : AfterSign(s)
AsyncRespond == \E s \in Slots : Respond(s)

NextAsync ==
    \/ AsyncArrive
    \/ AsyncAfterAuth
    \/ AsyncAfterBody
    \/ AsyncAfterSign
    \/ AsyncRespond

SpecAsync == Init /\ [][NextAsync]_vars

-----------------------------------------------------------------------------
(* Properties of the auth gate and of login, under SpecAuth *)

\* The request resolves to a route other than POST /login
Protected(r) == matchRoute(r.path, r.method).handler \notin {"none", "login"}

\* The header is absent, is not "Bearer <token>", or its token is not in the
\* registry or has its expiry at or before instant t
Unauthorized(header, jwts, t) ==
    \/ header.scheme = "none"
    \/ header.scheme # "Bearer "
    \/ ~MapHas(jwts, header.rest)
    \/ MapGet(jwts, header.rest) <= t

\* C1: every request to a route other than POST /login whose Authorization
\* header is absent, not a Bearer header, or carries an unknown or expired
\* token is answered 401 and changes neither the store nor the registry, and
\* a resource handler runs only after the gate accepted the token.
C1_GateRejectsUnauthorized ==
    [][(phase' = "done" /\ Protected(req')) =>
          /\ Unauthorized(req'.header, validJwts, now) =>
                (resp'.status = 401 /\ UNCHANGED <<store, validJwts>>)
          /\ ran' # "none" =>
                (gate' = "accepted" /\ ~Unauthorized(req'.header, validJwts, now))]_vars

\* C2: a protected request bearing a registered token with expiry expMs is
\* answered 401 whenever expMs <= now, the instant now = expMs included, and
\* is accepted only when now < expMs.
C2_RejectedFromExpiryOn ==
    [][(/\ phase' = "done"
        /\ Protected(req')
        /\ req'.header.scheme = "Bearer "
        /\ MapHas(validJwts, req'.header.rest)) =>
          IF MapGet(validJwts, req'.header.rest) <= now
          THEN resp'.status = 401 /\ ran' = "none"
          ELSE gate' = "accepted"]_vars

\* A login has just succeeded
LoggedIn == phase = "done" /\ ran = "login" /\ resp.status = 200

\* C3 as stated: after a successful login at instant t the expiry recorded in
\* the registry and returned as expMs is exactly t + 3,600,000.
C3_ExpiryIsInstantPlusHour ==
    LoggedIn =>
        /\ resp.body.expMs = now + 3600000
        /\ MapHas(validJwts, resp.body.token)
        /\ MapGet(validJwts, resp.body.token) = now + 3600000

\* C3, amended: after a successful login at instant t the expiry recorded in
\* the registry and returned as expMs is the start of t's second plus
\* 3,600,000, which lies in (t + 3,599,000, t + 3,600,000]; a registered token
\* is accepted at every instant before its expiry and rejected at every
\* instant past it.
C3_ExpiryIsWholeSecondPlusHour ==
    /\ LoggedIn =>
          /\ resp.body.expMs = (now \div 1000) * 1000 + 3600000
          /\ resp.body.expMs > now + 3599000
          /\ resp.body.expMs <= now + 3600000
          /\ MapHas(validJwts, resp.body.token)
          /\ MapGet(validJwts, resp.body.token) = resp.body.expMs
    /\ (/\ phase = "done"
        /\ Protected(req)
        /\ req.header.scheme = "Bearer "
        /\ MapHas(validJwts, req.header.rest)) =>
          /\ now < MapGet(validJwts, req.header.rest) => gate = "accepted"
          /\ now > MapGet(validJwts, req.header.rest) =>
                (resp.status = 401 /\ gate = "rejected")

\* A login inside a second: the expiry falls short of a full hour
C3_Witness ==
    /\ LoggedIn
    /\ now % 1000 # 0
    /\ resp.body.expMs < now + 3600000
    /\ MapGet(validJwts, resp.body.token) = resp.body.expMs

\* C4: POST /login with a Basic header issues a token and registers it iff
\* the decoded text is exactly "admin:hunter2"; any other decoded text is
\* answered 401 and leaves the registry unchanged.
C4_OnlyExactCredentials ==
    [][(/\ phase' = "done"
        /\ ran' = "login"
        /\ req'.header.scheme = "Basic "
        /\ req'.header.rest.valid) =>
          IF req'.header.rest.decoded = <<"admin", ":", "hunter2">>
          THEN /\ resp'.status = 200
               /\ MapHas(validJwts', resp'.body.token)
          ELSE /\ resp'.status = 401
               /\ validJwts' = validJwts]_vars

-----------------------------------------------------------------------------
(* Properties of the resource store, under Spec *)

\* The handler and the path parameters the router resolves r to
RouteOf(r) == matchRoute(r.path, r.method).handler
ParamOf(r) == matchRoute(r.path, r.method).params[1]

\* The body holds field f with a value of JSON type ty
Holds(body, f, ty) ==
    /\ body.kind = "object"
    /\ f \in DOMAIN body.fields
    /\ body.fields[f].t = ty

\* The number a decimal text denotes
DigitValue(c) == CHOOSE d \in 0..9 : Digit(d) = c

RECURSIVE Value(_)
Value(digits) ==
    IF digits = <<>> THEN 0
    ELSE 10 * Value(SubSeq(digits, 1, Len(digits) - 1)) + DigitValue(digits[Len(digits)])

StrictlyIncreasing(ids) ==
    \A i, j \in 1..Len(ids) : i < j => (ids[i] # ids[j] /\ Value(ids[i]) < Value(ids[j]))

\* C5: the IDs successful project creations return are pairwise distinct and
\* strictly increasing in call order, and so are those of todo creations; the
\* keys and IDs stored are among them, so a deleted ID is never handed out
\* again; a creation in one collection leaves the other's counter alone.
C5_IdsUniqueAndIncreasing ==
    [][/\ StrictlyIncreasing(issued'.projects)
       /\ StrictlyIncreasing(issued'.todos)
       /\ \A i \in 1..Len(projects') :
              /\ projects'[i].v.id = projects'[i].k
              /\ \E n \in 1..Len(issued'.projects) : issued'.projects[n] = projects'[i].k
       /\ \A i \in 1..Len(todos') :
              /\ todos'[i].v.id = todos'[i].k
              /\ \E n \in 1..Len(issued'.todos) : issued'.todos[n] = todos'[i].k
       /\ \A i, j \in 1..Len(todos') : i # j => todos'[i].k # todos'[j].k
       /\ \A i, j \in 1..Len(projects') : i # j => projects'[i].k # projects'[j].k
       /\ ran' = "createProject" => todoCounter' = todoCounter
       /\ ran' = "createTodo" => projectCounter' = projectCounter
       /\ projectCounter' >= projectCounter
       /\ todoCounter' >= todoCounter]_vars

\* Todo 1 was created and deleted, and the next creation returned ID 2 while
\* the project counter stayed where the one project creation left it
C5_Witness ==
    /\ phase = "done"
    /\ ran = "createTodo"
    /\ resp.status = 201
    /\ resp.body.id = <<"2">>
    /\ issued.todos = << <<"1">>, <<"2">> >>
    /\ ~MapHas(todos, <<"1">>)
    /\ issued.projects = << <<"1">> >>
    /\ projectCounter = 2

\* C6: a stored todo keeps the projectId given at creation, its id and its
\* createdAt in every later state in which it exists, whatever is updated or
\* deleted.
C6_TodoOwnerNeverChanges ==
    [][/\ \A k \in MapKeys(todos) \cap MapKeys(todos') :
              /\ MapGet(todos', k).projectId = MapGet(todos, k).projectId
              /\ MapGet(todos', k).id = MapGet(todos, k).id
              /\ MapGet(todos', k).createdAt = MapGet(todos, k).createdAt
       /\ \A k \in MapKeys(todos') \ MapKeys(todos) :
              /\ ran' = "createTodo"
              /\ MapGet(todos', k).projectId = ParamOf(req')
              /\ MapGet(todos', k).createdAt = [iso |-> now]]_vars

\* A todo whose project has been deleted is updated with a body that names
\* another project, at a later clock reading than its creation
C6_Witness ==
    /\ phase = "done"
    /\ ran = "updateTodo"
    /\ resp.status = 200
    /\ Holds(req.body, "projectId", "string")
    /\ resp.body.projectId # req.body.fields.projectId.v
    /\ ~MapHas(projects, resp.body.projectId)
    /\ resp.body.createdAt # [iso |-> now]
    /\ MapGet(todos, ParamOf(req)) = resp.body

\* C7: a successful DELETE /projects/{id} removes that project only and
\* leaves the todos map as it was; each todo of the project is still what
\* GET /todos/{todoId} returns and is still in the list GET /todos returns.
C7_DeleteProjectKeepsTodos ==
    [][(phase' = "done" /\ ran' = "deleteProject" /\ resp'.status = 204) =>
          LET id == ParamOf(req')
              after == [projects |-> projects', todos |-> todos',
                        projectCounter |-> projectCounter', todoCounter |-> todoCounter',
                        validJwts |-> validJwts']
              listed == listAllTodos(after).resp
          IN  /\ MapHas(projects, id)
              /\ MapKeys(projects') = MapKeys(projects) \ {id}
              /\ \A k \in MapKeys(projects') : MapGet(projects', k) = MapGet(projects, k)
              /\ todos' = todos
              /\ \A k \in MapKeys(todos) :
                    MapGet(todos, k).projectId = id =>
                        /\ getTodo(after, <<k>>).resp.status = 200
                        /\ getTodo(after, <<k>>).resp.body = MapGet(todos, k)
                        /\ getTodo(after, <<k>>).resp.body.projectId = id
                        /\ listed.status = 200
                        /\ \E i \in 1..Len(listed.body) : listed.body[i] = MapGet(todos, k)]_vars

\* A project that has a todo has just been deleted
C7_Witness ==
    /\ phase = "done"
    /\ ran = "deleteProject"
    /\ resp.status = 204
    /\ \E i \in 1..Len(todos) : todos[i].v.projectId = ParamOf(req)
    /\ ~MapHas(projects, ParamOf(req))

\* C8: PUT /todos/{id} on an existing todo answers 200 and replaces title,
\* completed and dueDate each on its own, and only by a body value of type
\* string, boolean and string; an omitted or wrong-typed field keeps its
\* value, and no other todo and no project changes.
C8_UpdateTodoTypeStrict ==
    [][(/\ phase' = "done"
        /\ gate' = "accepted"
        /\ RouteOf(req') = "updateTodo"
        /\ MapHas(todos, ParamOf(req'))) =>
          LET id == ParamOf(req')
              body == req'.body
              old == MapGet(todos, id)
              new == MapGet(todos', id)
          IN  /\ resp'.status = 200
              /\ MapKeys(todos') = MapKeys(todos)
              /\ resp'.body = new
              /\ new.title = IF Holds(body, "title", "string")
                             THEN body.fields.title.v ELSE old.title
              /\ new.completed = IF Holds(body, "completed", "boolean")
                                 THEN body.fields.completed = Bool(TRUE) ELSE old.completed
              /\ new.dueDate = IF Holds(body, "dueDate", "string")
                               THEN body.fields.dueDate ELSE old.dueDate
              /\ new.id = old.id /\ new.projectId = old.projectId
              /\ new.createdAt = old.createdAt
              /\ \A k \in MapKeys(todos) \ {id} : MapGet(todos', k) = MapGet(todos, k)
              /\ UNCHANGED <<projects, projectCounter, todoCounter>>]_vars

\* An update with completed: "true" and dueDate: 5 left completed false and
\* the due date null
C8_Witness ==
    /\ phase = "done"
    /\ ran = "updateTodo"
    /\ resp.status = 200
    /\ Holds(req.body, "completed", "string")
    /\ Holds(req.body, "dueDate", "number")
    /\ resp.body.completed = FALSE
    /\ resp.body.dueDate = Null
    /\ MapGet(todos, ParamOf(req)) = resp.body

\* C9: every stored todo has a non-empty title.
C9_TitlesNonEmpty == \A i \in 1..Len(todos) : todos[i].v.title # <<>>

\* C10: POST /projects/{id}/todos for an ID no project currently has answers
\* 404 whatever the body, stores no todo and leaves the todo counter alone.
C10_CreateTodoNeedsProject ==
    [][(/\ phase' = "done"
        /\ gate' = "accepted"
        /\ RouteOf(req') = "createTodo"
        /\ ~MapHas(projects, ParamOf(req'))) =>
          /\ resp'.status = 404
          /\ UNCHANGED <<todos, todoCounter, projects, projectCounter>>]_vars

\* Project 1 was created and deleted; a todo with a valid title for it is
\* answered 404 and nothing is stored
C10_Witness ==
    /\ phase = "done"
    /\ ran = "createTodo"
    /\ resp.status = 404
    /\ ParamOf(req) = <<"1">>
    /\ issued.projects = << <<"1">> >>
    /\ Holds(req.body, "title", "string")
    /\ req.body.fields.title.v # <<>>
    /\ todos = <<>>
    /\ todoCounter = 1

-----------------------------------------------------------------------------
(* Properties of the router, under SpecAuth *)

\* The whole pathname is the template of route i: a literal segment is equal,
\* a parameter is a non-empty segment, and the template of the first route
\* is "/"
IsTemplate(i, path) ==
    LET segs == IF routes[i].path.anchored THEN routes[i].path.segs ELSE << <<>> >>
    IN  /\ Len(path) = Len(segs)
        /\ \A n \in 1..Len(segs) :
               IF segs[n] = Capture THEN path[n] # <<>> ELSE path[n] = segs[n]

Declared(method, path) ==
    {i \in 1..Len(routes) : routes[i].method = method /\ IsTemplate(i, path)}

\* A declared path followed by "/"
DeclaredThenSlash(path) ==
    /\ Len(path) > 1
    /\ path[Len(path)] = <<>>
    /\ \E i \in 1..Len(routes) : IsTemplate(i, SubSeq(path, 1, Len(path) - 1))

\* C11: a request resolves to a handler only if its whole path equals a
\* template declared for its method, and then to the first such route; a
\* declared path followed by "/" resolves to no route and is answered 404.
C11_RouteResolutionExact ==
    [][phase' = "done" =>
          LET match == matchRoute(req'.path, req'.method)
              decl == Declared(req'.method, req'.path)
          IN  /\ match.handler # "none" =>
                    /\ decl # {}
                    /\ match.handler = routes[CHOOSE i \in decl : \A j \in decl : i <= j].handler
              /\ decl = {} => (resp'.status = 404 /\ ran' = "none")
              /\ DeclaredThenSlash(req'.path) =>
                    (match.handler = "none" /\ resp'.status = 404)]_vars

-----------------------------------------------------------------------------
(* Properties of body parsing, under Spec *)

\* C12: an accepted POST or PUT whose body is not JSON reaches its handler
\* and is answered, and leaves the state, exactly as the same request with
\* the body {}: create project and create todo answer 400 and store nothing,
\* update project answers 400, update todo answers 200 with the stored todo
\* as it was; a missing project or todo is answered 404 as for any body.
C12_UnparseableBodyIsNoFields ==
    [][(/\ phase' = "done"
        /\ gate' = "accepted"
        /\ req'.method \in {"POST", "PUT"}
        /\ req'.body = Unparseable) =>
          LET h == RouteOf(req')
              id == ParamOf(req')
              same == handler(State, [req' EXCEPT !.body = Object(<<>>)], now)
          IN  /\ ran' = h
              /\ resp' = same.resp
              /\ <<projects', todos', projectCounter', todoCounter', validJwts'>>
                    = <<same.st.projects, same.st.todos, same.st.projectCounter,
                        same.st.todoCounter, same.st.validJwts>>
              /\ UNCHANGED <<projects, projectCounter, todoCounter, validJwts>>
              /\ h = "createProject" => (resp'.status = 400 /\ todos' = todos)
              /\ h = "createTodo" =>
                    /\ resp'.status = IF MapHas(projects, id) THEN 400 ELSE 404
                    /\ todos' = todos
              /\ h = "updateProject" =>
                    /\ resp'.status = IF MapHas(projects, id) THEN 400 ELSE 404
                    /\ todos' = todos
              /\ h = "updateTodo" =>
                    IF MapHas(todos, id)
                    THEN /\ resp'.status = 200
                         /\ resp'.body = MapGet(todos, id)
                         /\ MapKeys(todos') = MapKeys(todos)
                         /\ \A k \in MapKeys(todos) : MapGet(todos', k) = MapGet(todos, k)
                    ELSE resp'.status = 404 /\ todos' = todos]_vars

\* A todo that was completed and given a due date has been updated with a
\* body that is not JSON: 200, and it is still completed and still due
C12_Witness ==
    /\ phase = "done"
    /\ gate = "accepted"
    /\ ran = "updateTodo"
    /\ req.body = Unparseable
    /\ resp.status = 200
    /\ resp.body.completed = TRUE
    /\ resp.body.dueDate = Str(<<"d">>)
    /\ MapGet(todos, ParamOf(req)) = resp.body

-----------------------------------------------------------------------------
(* Properties of the token registry, under SpecAuth *)

\* C14: no step removes or changes a registry entry; a request to a route
\* other than POST /login, accepted or rejected, leaves the registry as it
\* was, and so does a failed login; a successful login sets the entry of the
\* token it returns to the expiry it returns and touches no other; a request
\* bearing a registered token before that token's expiry is accepted,
\* whatever logins came after it.
C14_RegistryOnlyGrows ==
    [][/\ \A k \in MapKeys(validJwts) :
              MapHas(validJwts', k) /\ MapGet(validJwts', k) = MapGet(validJwts, k)
       /\ phase' = "done" =>
              /\ RouteOf(req') # "login" => validJwts' = validJwts
              /\ (RouteOf(req') = "login" /\ resp'.status # 200) => validJwts' = validJwts
              /\ (RouteOf(req') = "login" /\ resp'.status = 200) =>
                    /\ MapKeys(validJwts') = MapKeys(validJwts) \cup {resp'.body.token}
                    /\ MapGet(validJwts', resp'.body.token) = resp'.body.expMs
                    /\ resp'.body.expMs = resp'.body.token.exp * MsPerSecond
              /\ (/\ Protected(req')
                  /\ req'.header.scheme = "Bearer "
                  /\ MapHas(validJwts, req'.header.rest)
                  /\ now < MapGet(validJwts, req'.header.rest)) =>
                    gate' = "accepted"]_vars

\* After a login one second later returned another token, a request bearing
\* the first token is accepted and both entries are in the registry
C14_Witness ==
    /\ phase = "done"
    /\ gate = "accepted"
    /\ req.header = Bearer(TokenAt(FirstInstant))
    /\ now = FirstInstant + MsPerSecond
    /\ MapHas(validJwts, TokenAt(FirstInstant))
    /\ MapHas(validJwts, TokenAt(now))
    /\ TokenAt(now) # TokenAt(FirstInstant)
    /\ validJwts[Len(validJwts)].k = TokenAt(now)

-----------------------------------------------------------------------------
(* Properties of rejected requests, under Spec *)

\* C15: a request answered 400, 401 or 404 changes no map, no counter and
\* no registry entry; each counter is one more than the number of successful
\* creations in its collection, and the k-th successful creation in a
\* collection returned the ID k.
C15_RejectionsConsumeNoId ==
    [][/\ (phase' = "done" /\ resp'.status \in {400, 401, 404}) =>
              UNCHANGED <<projects, todos, projectCounter, todoCounter, validJwts>>
       /\ projectCounter' = Len(issued'.projects) + 1
       /\ todoCounter' = Len(issued'.todos) + 1
       /\ \A k \in 1..Len(issued'.projects) : issued'.projects[k] = NumberToString(k)
       /\ \A k \in 1..Len(issued'.todos) : issued'.todos[k] = NumberToString(k)]_vars

\* After one project and one todo were created, a todo creation without a
\* title is answered 400 and both counters stay at 2
C15_Witness ==
    /\ phase = "done"
    /\ ran = "createTodo"
    /\ resp.status = 400
    /\ MapHas(projects, ParamOf(req))
    /\ issued = [projects |-> << <<"1">> >>, todos |-> << <<"1">> >>]
    /\ projectCounter = 2
    /\ todoCounter = 2

-----------------------------------------------------------------------------
(* Properties of requests in flight together, under SpecAsync *)

\* The call in slot s runs to its return in this step
Returns(s) == inflight[s].pc \in {"auth", "body", "sign"} /\ inflight'[s].pc = "done"

Elements(ids) == {ids[i] : i \in 1..Len(ids)}

\* C13: with requests interleaving at the awaits of the auth result, of the
\* body and of the signature, a step changes the store only by one handler
\* running from its existence check to its write: every 201 creation
\* returns an ID no earlier creation returned and adds exactly its record
\* under that ID, a record appears only by a creation, and a project update
\* or todo creation whose project is gone when it runs writes nothing and
\* is answered 404, although the project was there when the request arrived.
C13_HandlersRunAtomically ==
    [][/\ \A s \in Slots :
            LET f == inflight'[s]
                created(coll, coll2, before) ==
                    /\ f.resp.body.id \notin Elements(before)
                    /\ ~MapHas(coll, f.resp.body.id)
                    /\ Len(coll2) = Len(coll) + 1
                    /\ MapKeys(coll2) = MapKeys(coll) \cup {f.resp.body.id}
                    /\ MapGet(coll2, f.resp.body.id) = f.resp.body
                    /\ \A k \in MapKeys(coll) : MapGet(coll2, k) = MapGet(coll, k)
            IN  /\ (Returns(s) /\ f.ran = "createProject" /\ f.resp.status = 201) =>
                      (created(projects, projects', issued.projects) /\ todos' = todos)
                /\ (Returns(s) /\ f.ran = "createTodo" /\ f.resp.status = 201) =>
                      /\ created(todos, todos', issued.todos)
                      /\ projects' = projects
                      /\ MapHas(projects, f.match.params[1])
                /\ (/\ Returns(s)
                    /\ f.match.handler \in {"updateProject", "createTodo"}
                    /\ f.resp.status # 401
                    /\ ~MapHas(projects, f.match.params[1])) =>
                      (f.resp.status = 404 /\ UNCHANGED store)
       /\ \A k \in MapKeys(projects') \ MapKeys(projects) :
            \E s \in Slots : Returns(s) /\ inflight'[s].ran = "createProject"
                                /\ inflight'[s].resp.body.id = k
       /\ \A k \in MapKeys(todos') \ MapKeys(todos) :
            \E s \in Slots : Returns(s) /\ inflight'[s].ran = "createTodo"
                                /\ inflight'[s].resp.body.id = k
       /\ (\A s \in Slots : ~Returns(s)) => UNCHANGED <<store, validJwts>>
       /\ StrictlyIncreasing(issued'.projects)
       /\ StrictlyIncreasing(issued'.todos)
       /\ Len(issued'.projects) = projectCounter' - 1
       /\ Len(issued'.todos) = todoCounter' - 1]_vars

\* An update of project 1 arrived while the project was stored, a delete in
\* flight with it removed the project first, and the update was answered
\* 404 and wrote nothing
C13_Witness ==
    \E s, u \in Slots :
        /\ inflight[s].pc = "done"
        /\ inflight[s].match.handler = "updateProject"
        /\ inflight[s].seen
        /\ inflight[s].resp.status = 404
        /\ inflight[u].pc = "done"
        /\ inflight[u].ran = "deleteProject"
        /\ inflight[u].resp.status = 204
        /\ ~MapHas(projects, inflight[s].match.params[1])

====
